---- MODULE Spec2Model ----
(***************************************************************************)
(* Room-level presence tracking of AreaControl.                            *)
(*                                                                         *)
(* Part 1: the particle-filter engine of modules/advanced_tracker.py       *)
(* (RoomGraph, SensorModel, Particle, PersonTracker, MultiPersonTracker).  *)
(*                                                                         *)
(* Numbers.  Timestamps are positive multiples of TimeStep.  Likelihoods and        *)
(* particle weights are exact rationals, kept as integers in units of      *)
(* 1/floor_prob_den (1.0 is floor_prob_den, floor_prob is floor_prob_num). *)
(* Floating-point rounding of the cumulative table is not modelled.        *)
(***************************************************************************)
EXTENDS Integers, Sequences, FiniteSets, TLC

None == "None"

(* ---------------------------------------------------------------------- *)
(* Bounds                                                                  *)
(* ---------------------------------------------------------------------- *)
MaxTicks == 3
MaxCalls == 2
NumParticles == 2
MaxEvents == 4
MaxTrackTicks == 2

(* ---------------------------------------------------------------------- *)
(* Program constants                                                       *)
(* ---------------------------------------------------------------------- *)
cooldown == 420
floor_prob_num == 1
floor_prob_den == 20
BoostFactor == 2
\* TrackManager(max_track_length, oldest_track, max_tracks, score_threshold);
\* score_threshold is 2.5 = score_threshold_num / score_threshold_den.
max_track_length == 5
oldest_track == 1800
max_tracks == 10
score_threshold_num == 5
score_threshold_den == 2
\* Track(max_length)
max_length == 5
\* TrackManager(): the configuration all tracking engines start with unless
\* a specification constructs the manager with other values.
DefaultConfig == [max_track_length |-> max_track_length, max_tracks |-> max_tracks]

TimeStep == cooldown \div 2
\* Timestamps handed to the calls (time.time() is positive).
Times == {k * TimeStep : k \in 1..MaxTicks}

(* ---------------------------------------------------------------------- *)
(* RoomGraph                                                               *)
(* ---------------------------------------------------------------------- *)
Adjacency == {<<"bedroom", "hallway">>, <<"hallway", "kitchen">>}
Nodes == {e[1] : e \in Adjacency} \cup {e[2] : e \in Adjacency}
get_neighbors(room_id) ==
    {n \in Nodes : <<room_id, n>> \in Adjacency \/ <<n, room_id>> \in Adjacency}

PersonIds == {"p1", None}
PhoneIds == {"ph1", "ph2"}
\* The phone that gets associated; the other one stays without a person.
OwnedPhone == "ph1"
\* The persons phones are associated with.
PhoneOwners == {"p1", "p2"}
\* The rooms they are sighted in.
SightedRooms == {"bedroom", "hallway"}

\* A room some sensor reports that the connectivity graph does not have.
OffGraphRoom == "attic"
SensorRooms == Nodes \cup {OffGraphRoom}

VARIABLES
    clock,          \* latest timestamp handed to the tracker (time.time())
    last_fire,      \* SensorModel.last_fire
    presence,       \* SensorModel.presence (None: no entry)
    motion_state,   \* SensorModel.motion_state
    people,         \* MultiPersonTracker.people: id -> Person with its tracker
    phones,         \* MultiPersonTracker.phones: id -> Phone
    lastCall,       \* the call that produced the current state, and its result
    calls,          \* number of timestamped calls made so far
    tracks,         \* the Track objects held: TrackManager.tracks, or the
                    \* tracks a caller of the Track interface has built
    config,         \* TrackManager.max_track_length and TrackManager.max_tracks
    area_tree       \* Area.frozen of every area, Device.locked and
                    \* Device.cached_state of every device

vars == <<clock, last_fire, presence, motion_state, people, phones, lastCall, calls,
          tracks, config, area_tree>>

SM == [last_fire |-> last_fire, presence |-> presence, motion_state |-> motion_state]

\* lastCall: the operation, its person or phone id, its room and what it
\* returned or raised (its timestamp is clock); for associate_phone, which
\* takes two ids and returns nothing, ret is the person id.
Call(op, who, room, ret) == [op |-> op, who |-> who, room |-> room, ret |-> ret]

(* ---------------------------------------------------------------------- *)
(* SensorModel                                                             *)
(* ---------------------------------------------------------------------- *)
\* Variant: every trigger is recorded, also inside an open window.
record_trigger_always(sm, room_id, now) ==
    [sm EXCEPT !.motion_state[room_id] = TRUE, !.last_fire[room_id] = now]

\* Variant: a trigger is ignored as long as the motion flag is set, however
\* long ago the window was opened.
record_trigger_while_flagged(sm, room_id, now) ==
    IF sm.motion_state[room_id]
    THEN sm
    ELSE [sm EXCEPT !.motion_state[room_id] = TRUE, !.last_fire[room_id] = now]


record_trigger(sm, room_id, now) ==
    IF sm.motion_state[room_id] /\ now - sm.last_fire[room_id] < cooldown
    THEN sm
    ELSE [sm EXCEPT !.motion_state[room_id] = TRUE, !.last_fire[room_id] = now]

set_presence(sm, room_id, present) ==
    [sm EXCEPT !.presence[room_id] = present]

\* Variant: the open window is looked at before the explicit presence flag.
likelihood_window_first(sm, room_id, now) ==
    IF sm.motion_state[room_id] /\ now - sm.last_fire[room_id] < cooldown
    THEN floor_prob_den
    ELSE IF sm.presence[room_id] = "True" THEN floor_prob_den
    ELSE IF sm.presence[room_id] = "False" THEN 0
    ELSE floor_prob_num

\* Variant: the value falls linearly from 1.0 to floor_prob over the window.
likelihood_linear(sm, room_id, now) ==
    IF sm.presence[room_id] = "True" THEN floor_prob_den
    ELSE IF sm.presence[room_id] = "False" THEN 0
    ELSE IF sm.motion_state[room_id] /\ now - sm.last_fire[room_id] < cooldown
         THEN floor_prob_den
              - ((floor_prob_den - floor_prob_num) * (now - sm.last_fire[room_id]))
                  \div cooldown
         ELSE floor_prob_num

\* The value likelihood_still_present returns.
likelihood_still_present(sm, room_id, now) ==
    IF sm.presence[room_id] = "True" THEN floor_prob_den
    ELSE IF sm.presence[room_id] = "False" THEN 0
    ELSE IF sm.motion_state[room_id] /\ now - sm.last_fire[room_id] < cooldown
         THEN floor_prob_den
         ELSE floor_prob_num

\* Variant: a query clears the motion flag whether or not the cooldown has
\* elapsed.
likelihood_effect_eager(sm, room_id, now) ==
    IF sm.presence[room_id] # None THEN sm
    ELSE [sm EXCEPT !.motion_state[room_id] = FALSE]

\* The SensorModel likelihood_still_present leaves behind.
likelihood_effect(sm, room_id, now) ==
    IF sm.presence[room_id] # None THEN sm
    ELSE IF sm.motion_state[room_id] /\ now - sm.last_fire[room_id] >= cooldown
         THEN [sm EXCEPT !.motion_state[room_id] = FALSE]
         ELSE sm


(* ---------------------------------------------------------------------- *)
(* Particle and PersonTracker                                              *)
(*                                                                         *)
(* Between two updates every particle has weight 1.0 (resampling builds    *)
(* Particle(room)), so a particle is kept as its room and the weights      *)
(* live only inside update.                                                *)
(* ---------------------------------------------------------------------- *)
RECURSIVE SumUpTo(_, _)
SumUpTo(w, i) == IF i = 0 THEN 0 ELSE w[i] + SumUpTo(w, i - 1)

\* PersonTracker.__init__ with its particles already drawn by _init_particles.
NewTracker(init) ==
    [particles |-> init, last_sensor_room |-> None, last_sensor_time |-> 0]

\* The particle lists _init_particles can draw.
InitParticles == [1..NumParticles -> Nodes]

\* Variant: a move can cross two connections.
ParticleMove_two_hops(room) ==
    {room} \cup get_neighbors(room) \cup UNION {get_neighbors(n) : n \in get_neighbors(room)}


\* Particle.move: the rooms the particle can be in afterwards (stay_prob is
\* strictly between 0 and 1, so staying and every neighbour are possible).
ParticleMove(room) == {room} \cup get_neighbors(room)

\* The particle lists move_particles can leave.
move_particles(particles, sensor_room) ==
    IF sensor_room # None
    THEN {[i \in DOMAIN particles |-> sensor_room]}
    ELSE {q \in [DOMAIN particles -> Nodes] :
            \A i \in DOMAIN particles : q[i] \in ParticleMove(particles[i])}

\* One pass of the reweighting loop body for a particle in room.
ParticleWeight(sm, room, last_sensor_room, now) ==
    LET weight == likelihood_still_present(sm, room, now)
    IN  IF last_sensor_room # None /\ room = last_sensor_room
        THEN weight * BoostFactor
        ELSE weight

\* The reweighting loop over particles 1..i: the weights it assigns and the
\* SensorModel it leaves.
RECURSIVE Reweight(_, _, _, _, _)
Reweight(sm, rooms, last_sensor_room, now, i) ==
    IF i = 0 THEN [sm |-> sm, weights |-> <<>>]
    ELSE LET before == Reweight(sm, rooms, last_sensor_room, now, i - 1)
         IN  [sm |-> likelihood_effect(before.sm, rooms[i], now),
              weights |-> Append(before.weights,
                                 ParticleWeight(before.sm, rooms[i], last_sensor_room, now))]

\* The divisor of the cumulative table: the sum, or 1.0 when the sum is 0.
ResampleTotal(weights) ==
    LET total == SumUpTo(weights, Len(weights))
    IN  IF total = 0 THEN floor_prob_den ELSE total

\* Draws of random.random(), as fractions <<a, b>> = a/b in [0, 1): 0.0, 0.5
\* and the middle of every step of the cumulative table.  The index a draw
\* selects depends only on the step of the table it falls in, so every draw
\* in [0, 1) selects what one of these draws selects.
Draws(weights) ==
    {<<0, 1>>, <<1, 2>>} \cup
    {<<SumUpTo(weights, i - 1) + SumUpTo(weights, i), 2 * ResampleTotal(weights)>> :
        i \in {j \in DOMAIN weights : weights[j] > 0}}

\* The inner loop of resampling for the draw r: the first index whose
\* cumulative share acc/total is at least r, or 0 when the loop ends without
\* one (nothing is appended).  r <= acc/total is r[1] * total <= acc * r[2].
ResamplePick(weights, r) ==
    LET total == ResampleTotal(weights)
        hits == {i \in DOMAIN weights : r[1] * total <= SumUpTo(weights, i) * r[2]}
    IN  IF hits = {} THEN 0 ELSE CHOOSE i \in hits : \A j \in hits : i <= j

\* The particle lists resampling can build: one draw per current particle.
Resample(rooms, weights) ==
    LET picks == {ResamplePick(weights, r) : r \in Draws(weights)}
        kept(f) == SelectSeq(f, LAMBDA i : i # 0)
    IN  {[j \in DOMAIN kept(f) |-> rooms[kept(f)[j]]] : f \in [DOMAIN rooms -> picks]}

\* Variant: without sensor_room the motion model runs only once the last
\* direct observation is older than the cooldown.
update_gated(tr, sm, now, sensor_room) ==
    LET tr1 == IF sensor_room # None
               THEN [tr EXCEPT !.last_sensor_room = sensor_room,
                               !.last_sensor_time = now]
               ELSE tr
        sm1 == IF sensor_room # None THEN record_trigger(sm, sensor_room, now) ELSE sm
        movedSet == IF sensor_room = None /\ now - tr1.last_sensor_time < cooldown
                    THEN {tr1.particles}
                    ELSE move_particles(tr1.particles, sensor_room)
    IN  UNION {
          LET rw == Reweight(sm1, moved, tr1.last_sensor_room, now, Len(moved))
          IN  {[tr |-> [tr1 EXCEPT !.particles = new_particles], sm |-> rw.sm] :
                 new_particles \in Resample(moved, rw.weights)}
          : moved \in movedSet}

\* PersonTracker.update: the set of outcomes [tr, sm].
update(tr, sm, now, sensor_room) ==
    LET tr1 == IF sensor_room # None
               THEN [tr EXCEPT !.last_sensor_room = sensor_room,
                               !.last_sensor_time = now]
               ELSE tr
        sm1 == IF sensor_room # None THEN record_trigger(sm, sensor_room, now) ELSE sm
    IN  UNION {
          LET rw == Reweight(sm1, moved, tr1.last_sensor_room, now, Len(moved))
          IN  {[tr |-> [tr1 EXCEPT !.particles = new_particles], sm |-> rw.sm] :
                 new_particles \in Resample(moved, rw.weights)}
          : moved \in move_particles(tr1.particles, sensor_room)}

\* PersonTracker.estimate: the first room (in order of first appearance among
\* the particles) with the highest count.
Count(particles, room) == Cardinality({i \in DOMAIN particles : particles[i] = room})

estimate(particles) ==
    IF Len(particles) = 0 THEN "unknown"
    ELSE LET first == CHOOSE i \in DOMAIN particles :
                 /\ \A j \in DOMAIN particles :
                       Count(particles, particles[j]) <= Count(particles, particles[i])
                 /\ \A j \in 1..(i - 1) :
                       Count(particles, particles[j]) < Count(particles, particles[i])
         IN  particles[first]

\* PersonTracker.distribution: room -> <<count, total>>, the fraction
\* count / total, over the rooms that hold a particle; empty without particles.
\* Variant: the fraction is taken of the configured particle count.
distribution_total_configured(particles) == NumParticles

distribution_total(particles) == Len(particles)

distribution(particles) ==
    LET total == distribution_total(particles)
    IN  IF total = 0 THEN <<>>
        ELSE [room \in {particles[i] : i \in DOMAIN particles} |->
                <<Count(particles, room), total>>]

(* ---------------------------------------------------------------------- *)
(* MultiPersonTracker (debug = False: the plotting state is left out)      *)
(* ---------------------------------------------------------------------- *)
NewPerson(init) == [tracker |-> NewTracker(init), phones |-> <<>>]

\* people.get(person_id), creating the Person when it is missing: the set of
\* people mappings that can result (one per draw of the initial particles).
WithPerson(ppl, person_id) ==
    IF person_id \in DOMAIN ppl THEN {ppl}
    ELSE {[k \in DOMAIN ppl \cup {person_id} |->
             IF k = person_id THEN NewPerson(init) ELSE ppl[k]] : init \in InitParticles}

\* Variant: a Person created for the call is never stored in people.
process_event_unregistered(ppl, sm, person_id, room_id, now) ==
    UNION {
      {[people |-> IF person_id \in DOMAIN ppl
                   THEN [ppl1 EXCEPT ![person_id].tracker = o.tr]
                   ELSE ppl,
        sm |-> o.sm] :
          o \in update(ppl1[person_id].tracker, sm, now, room_id)}
      : ppl1 \in WithPerson(ppl, person_id)}

\* Variant: every tracker takes over the particle list of the sighted one.
process_event_shared_particles(ppl, sm, person_id, room_id, now) ==
    UNION {
      {[people |-> [q \in DOMAIN ppl1 |->
                      IF q = person_id THEN [ppl1[q] EXCEPT !.tracker = o.tr]
                      ELSE [ppl1[q] EXCEPT !.tracker.particles = o.tr.particles]],
        sm |-> o.sm] :
          o \in update(ppl1[person_id].tracker, sm, now, room_id)}
      : ppl1 \in WithPerson(ppl, person_id)}

\* MultiPersonTracker.process_event: the set of outcomes [people, sm].
process_event(ppl, sm, person_id, room_id, now) ==
    UNION {
      {[people |-> [ppl1 EXCEPT ![person_id].tracker = o.tr], sm |-> o.sm] :
          o \in update(ppl1[person_id].tracker, sm, now, room_id)}
      : ppl1 \in WithPerson(ppl, person_id)}

\* The loop "for pid, person in self.people.items(): person.tracker.update(now)"
\* over the persons in todo: the set of outcomes [people, sm].  The trackers
\* share only the SensorModel, and a pass without sensor_room changes it only
\* by clearing motion flags whose cooldown has elapsed at now, which changes
\* no likelihood at now: the outcomes do not depend on the order of the loop.
\* The passes for the remaining persons read only the SensorModel the pass
\* for pid leaves, so they are computed once per such SensorModel.
RECURSIVE UpdateAll(_, _, _, _)
UpdateAll(todo, ppl, sm, now) ==
    IF todo = {} THEN {[people |-> ppl, sm |-> sm]}
    ELSE LET pid == CHOOSE k \in todo : TRUE
             mine == update(ppl[pid].tracker, sm, now, None)
         IN  UNION {
               LET rest == UpdateAll(todo \ {pid}, ppl, sm1, now)
               IN  {[people |-> [r.people EXCEPT ![pid].tracker = o.tr], sm |-> r.sm] :
                      o \in {x \in mine : x.sm = sm1}, r \in rest}
               : sm1 \in {o.sm : o \in mine}}

\* update(now) without sensor_room calls Particle.move on every particle, and
\* Particle.move asks the graph for the neighbours of the particle's room:
\* networkx raises NetworkXError for a room that is not a node.
move_raises(particles) == \E i \in DOMAIN particles : particles[i] \notin Nodes

\* The loop of step and record_presence over all persons: the set of outcomes
\* [people, sm, raised].  When the tracker of some person raises, the loop
\* ends there: the persons visited before it (any set of the others, the
\* order of the dictionary not being kept here) have been updated, the
\* raising tracker and the persons after it have not.
TickAll(ppl, sm, now) ==
    LET failing == {pid \in DOMAIN ppl : move_raises(ppl[pid].tracker.particles)}
    IN  IF failing = {}
        THEN {[people |-> o.people, sm |-> o.sm, raised |-> FALSE] :
                o \in UpdateAll(DOMAIN ppl, ppl, sm, now)}
        ELSE UNION {
               {[people |-> o.people, sm |-> o.sm, raised |-> TRUE] :
                  o \in UpdateAll(done, ppl, sm, now)}
               : done \in SUBSET (DOMAIN ppl \ failing)}

\* MultiPersonTracker.estimate_locations
estimate_locations == [pid \in DOMAIN people |-> estimate(people[pid].tracker.particles)]

(* ---------------------------------------------------------------------- *)
(* Phones                                                                  *)
(* ---------------------------------------------------------------------- *)
\* Phone(phone_id): no room, never seen, no person.
NewPhone == [person_id |-> None, last_room |-> None, last_seen |-> 0]

\* "phone_id in person.phones"
InList(list, x) == \E i \in DOMAIN list : list[i] = x

\* MultiPersonTracker.add_phone: the phones mapping it leaves.
add_phone(phs, phone_id) ==
    IF phone_id \in DOMAIN phs THEN phs
    ELSE [k \in DOMAIN phs \cup {phone_id} |->
             IF k = phone_id THEN NewPhone ELSE phs[k]]

\* MultiPersonTracker.associate_phone: the set of outcomes [people, phones]
\* (one per draw of the initial particles when the Person is created).  The
\* phone id is appended to the new owner's list and the phone's person_id is
\* overwritten; no other person's list is touched.
associate_phone(ppl, phs, phone_id, person_id) ==
    LET phs1 == add_phone(phs, phone_id)
    IN  {[people |-> [ppl1 EXCEPT ![person_id].phones =
                         IF InList(@, phone_id) THEN @ ELSE Append(@, phone_id)],
          phones |-> [phs1 EXCEPT ![phone_id].person_id = person_id]] :
            ppl1 \in WithPerson(ppl, person_id)}

\* Variant: a phone report is forwarded to process_event whether or not the
\* phone has a person (the person_id None included).
process_phone_data_forward_always(ppl, phs, sm, phone_id, room_id, now) ==
    LET phs1 == [add_phone(phs, phone_id) EXCEPT ![phone_id].last_room = room_id,
                                                 ![phone_id].last_seen = now]
    IN  {[people |-> o.people, phones |-> phs1, sm |-> o.sm] :
            o \in process_event(ppl, sm, phs1[phone_id].person_id, room_id, now)}

\* MultiPersonTracker.process_phone_data: the set of outcomes
\* [people, phones, sm].
process_phone_data(ppl, phs, sm, phone_id, room_id, now) ==
    LET phs1 == [add_phone(phs, phone_id) EXCEPT ![phone_id].last_room = room_id,
                                                 ![phone_id].last_seen = now]
        person_id == phs1[phone_id].person_id
    IN  IF person_id # None
        THEN {[people |-> o.people, phones |-> phs1, sm |-> o.sm] :
                o \in process_event(ppl, sm, person_id, room_id, now)}
        ELSE {[people |-> ppl, phones |-> phs1, sm |-> sm]}

\* MultiPersonTracker.dump_state: the data handed to json.dumps (the text is
\* a function of this data).
dump_state ==
    [people |-> [pid \in DOMAIN people |->
                    [estimate |-> estimate(people[pid].tracker.particles),
                     phones |-> people[pid].phones]],
     phones |-> [phid \in DOMAIN phones |->
                    [person |-> phones[phid].person_id,
                     last_room |-> phones[phid].last_room,
                     last_seen |-> phones[phid].last_seen]]]

SetSM(sm) ==
    /\ last_fire' = sm.last_fire
    /\ presence' = sm.presence
    /\ motion_state' = sm.motion_state

Later(now) == now \in Times /\ now >= clock

\* One more call of the MultiPersonTracker, while the budget lasts.
Called == calls < MaxCalls /\ calls' = calls + 1

ProcessEvent(person_id, room_id, now) ==
    /\ Called
    /\ Later(now)
    /\ \E o \in process_event(people, SM, person_id, room_id, now) :
          /\ people' = o.people
          /\ SetSM(o.sm)
    /\ clock' = now
    /\ lastCall' = Call("process_event", person_id, room_id, None)
    /\ UNCHANGED <<phones, tracks, config, area_tree>>

Step(now) ==
    /\ Called
    /\ Later(now)
    /\ \E o \in TickAll(people, SM, now) :
          /\ people' = o.people
          /\ SetSM(o.sm)
          /\ lastCall' = Call("step", None, None,
                              IF o.raised THEN "NetworkXError" ELSE None)
    /\ clock' = now
    /\ UNCHANGED <<phones, tracks, config, area_tree>>

RecordPresence(room_id, present, now) ==
    /\ Called
    /\ Later(now)
    /\ \E o \in TickAll(people, set_presence(SM, room_id, present), now) :
          /\ people' = o.people
          /\ SetSM(o.sm)
          /\ lastCall' = Call("record_presence", None, room_id,
                              IF o.raised THEN "NetworkXError" ELSE present)
    /\ clock' = now
    /\ UNCHANGED <<phones, tracks, config, area_tree>>

\* Variant: reading the state also runs a tick of every tracker.
DumpState_ticking ==
    /\ \E o \in TickAll(people, SM, clock) :
          /\ people' = o.people
          /\ SetSM(o.sm)
    /\ lastCall' = Call("dump_state", None, None, dump_state)
    /\ UNCHANGED <<clock, phones, calls, tracks, config, area_tree>>

AddPhone(phone_id) ==
    /\ phones' = add_phone(phones, phone_id)
    /\ lastCall' = Call("add_phone", phone_id, None, None)
    /\ UNCHANGED <<clock, last_fire, presence, motion_state, people, calls, tracks, config, area_tree>>

AssociatePhone(phone_id, person_id) ==
    /\ \E o \in associate_phone(people, phones, phone_id, person_id) :
          /\ people' = o.people
          /\ phones' = o.phones
    /\ lastCall' = Call("associate_phone", phone_id, None, person_id)
    /\ UNCHANGED <<clock, last_fire, presence, motion_state, calls, tracks, config, area_tree>>

ProcessPhoneData(phone_id, room_id, now) ==
    /\ Called
    /\ Later(now)
    /\ \E o \in process_phone_data(people, phones, SM, phone_id, room_id, now) :
          /\ people' = o.people
          /\ phones' = o.phones
          /\ SetSM(o.sm)
    /\ clock' = now
    /\ lastCall' = Call("process_phone_data", phone_id, room_id, None)
    /\ UNCHANGED <<tracks, config, area_tree>>

EstimateLocations ==
    /\ lastCall' = Call("estimate_locations", None, None, estimate_locations)
    /\ UNCHANGED <<clock, last_fire, presence, motion_state, people, phones, calls, tracks, config, area_tree>>

DumpState ==
    /\ lastCall' = Call("dump_state", None, None, dump_state)
    /\ UNCHANGED <<clock, last_fire, presence, motion_state, people, phones, calls, tracks, config, area_tree>>

(* ---------------------------------------------------------------------- *)
(* Direct calls of the SensorModel                                         *)
(* ---------------------------------------------------------------------- *)
RecordTrigger(room_id, now) ==
    /\ Later(now)
    /\ SetSM(record_trigger(SM, room_id, now))
    /\ clock' = now
    /\ lastCall' = Call("record_trigger", None, room_id, None)
    /\ UNCHANGED <<people, phones, calls, tracks, config, area_tree>>

SetPresence(room_id, present) ==
    /\ SetSM(set_presence(SM, room_id, present))
    /\ lastCall' = Call("set_presence", None, room_id, present)
    /\ UNCHANGED <<clock, people, phones, calls, tracks, config, area_tree>>

LikelihoodStillPresent(room_id, now) ==
    /\ Later(now)
    /\ SetSM(likelihood_effect(SM, room_id, now))
    /\ clock' = now
    /\ lastCall' = Call("likelihood_still_present", None, room_id,
                        likelihood_still_present(SM, room_id, now))
    /\ UNCHANGED <<people, phones, calls, tracks, config, area_tree>>

(* ---------------------------------------------------------------------- *)
(* Part 2: the track-association engine of modules/tracker.py              *)
(* (Event, Track, TrackManager, GraphManager).                             *)
(*                                                                         *)
(* Time.  The engine reads time.time() itself.  Every read made during one *)
(* add_event call returns the value now of that call; the clock never goes *)
(* back, and two calls can read the same value.  Two reads that are        *)
(* compared within one call can differ by less than any difference of      *)
(* recorded timestamps: where only that decides a comparison, both results *)
(* are possible.                                                           *)
(* ---------------------------------------------------------------------- *)
\* The connectivity descriptor (connections.yml): two separate groups of
\* rooms, each a tree, so that shortest paths are unique.  bedroom,
\* dining_room and office are farther than score_threshold from each other.
Connections == {<<"bedroom", "hallway">>, <<"hallway", "kitchen">>,
                <<"kitchen", "dining_room">>, <<"hallway", "study">>,
                <<"study", "office">>, <<"garage", "shed">>}
GraphNodes == {e[1] : e \in Connections} \cup {e[2] : e \in Connections}
Adjacent(a, b) == <<a, b>> \in Connections \/ <<b, a>> \in Connections

\* The rooms whose sensors fire, and the clock values of the calls.
TrackRooms == {"bedroom", "kitchen", "dining_room", "garage"}
ChainRooms == {"bedroom", "hallway", "kitchen"}
TrackTimeStep == (2 * oldest_track) \div 3
TrackTimes == {k * TrackTimeStep : k \in 0..MaxTrackTicks}

\* GraphManager.is_area_in_graph
is_area_in_graph(area) == area \in GraphNodes

\* The rooms within k hops of area.
RECURSIVE Within(_, _)
Within(area, k) ==
    IF k = 0 THEN {area}
    ELSE LET near == Within(area, k - 1)
         IN  near \cup {n \in GraphNodes : \E m \in near : Adjacent(m, n)}

\* GraphManager.get_distance: nx.shortest_path_length, or NoPath where
\* networkx raises NetworkXNoPath.
NoPath == -1
get_distance(area_1, area_2) ==
    IF area_2 \notin Within(area_1, Cardinality(GraphNodes)) THEN NoPath
    ELSE CHOOSE k \in 0..Cardinality(GraphNodes) :
            /\ area_2 \in Within(area_1, k)
            /\ k = 0 \/ area_2 \notin Within(area_1, k - 1)

(* ---------------------------------------------------------------------- *)
(* Event                                                                   *)
(* ---------------------------------------------------------------------- *)
\* last_falling_edge_time = None
NoTime == -1

\* Event(area) created at now (an impulse: no falling edge).
Event(area, now) ==
    [area |-> area, first_presence_time |-> now, last_rising_edge_time |-> now,
     last_falling_edge_time |-> NoTime]

\* Event.get_duration
get_duration(ev) ==
    IF ev.last_falling_edge_time # NoTime
    THEN ev.last_falling_edge_time - ev.first_presence_time
    ELSE IF ev.last_rising_edge_time # ev.first_presence_time
         THEN ev.last_rising_edge_time - ev.first_presence_time
         ELSE 0

\* Event.end(end_timestamp) with a timestamp
end(ev, end_timestamp) == [ev EXCEPT !.last_falling_edge_time = end_timestamp]

\* Event.impulse, Event.presence and Event.absence called at now;
\* Event.end() without a timestamp is absence().
Event_impulse(ev, now) == [ev EXCEPT !.last_rising_edge_time = now]
Event_presence(ev, now) ==
    [ev EXCEPT !.last_rising_edge_time = now, !.last_falling_edge_time = NoTime]
Event_absence(ev, now) == [ev EXCEPT !.last_falling_edge_time = now]

\* Event.end(end_timestamp): with a timestamp the event is closed at it,
\* without one (NoTime here) absence() closes it at now.
Event_end(ev, end_timestamp, now) ==
    IF end_timestamp # NoTime THEN end(ev, end_timestamp) ELSE Event_absence(ev, now)


\* The time get_time_since_last_trigger subtracts from time.time().
LastTrigger(ev) ==
    IF ev.last_falling_edge_time # NoTime THEN ev.last_falling_edge_time
    ELSE ev.last_rising_edge_time

\* The results "a.get_time_since_last_trigger() < b.get_time_since_last_trigger()"
\* can have: each side reads the clock, a's side first.
TriggeredLater(a, b) ==
    IF LastTrigger(a) > LastTrigger(b) THEN {TRUE}
    ELSE IF LastTrigger(a) = LastTrigger(b) THEN {TRUE, FALSE}
    ELSE {FALSE}

(* ---------------------------------------------------------------------- *)
(* Track                                                                   *)
(* ---------------------------------------------------------------------- *)
\* Track() followed by add_event(area) on the empty track, at now.
NewTrack(area, now) ==
    [event_list |-> <<Event(area, now)>>, last_event_time |-> now,
     first_event_time |-> now]

\* Track.get_area: the room of the head event.
get_area(track) == track.event_list[1].area

\* Track.add_event(area, impulse) at now: a head of the same room is
\* refreshed, a head of another room is closed and the new event put in front
\* of it.
Track_add_event(track, area, is_impulse, now) ==
    IF Len(track.event_list) = 0
    THEN [track EXCEPT !.event_list = <<Event(area, now)>>, !.last_event_time = now]
    ELSE IF get_area(track) = area
    THEN [track EXCEPT
            !.event_list[1] = IF is_impulse THEN Event_impulse(@, now) ELSE Event_presence(@, now),
            !.last_event_time = now]
    ELSE [track EXCEPT
            !.event_list = <<Event(area, now)>>
                              \o [track.event_list EXCEPT ![1] = Event_absence(@, now)],
            !.last_event_time = now]


\* Track._trim
_trim(track) ==
    IF Len(track.event_list) > max_length
    THEN [track EXCEPT !.event_list = SubSeq(@, 1, max_length)]
    ELSE track

\* merge_tracks, first branch: the loop over the first i events of the track
\* to merge.  Each is inserted in front, after closing a head of duration 0
\* at the first-presence time of the event inserted.
RECURSIVE MergePrepend(_, _, _)
MergePrepend(event_list, to_merge, i) ==
    IF i = 0 THEN event_list
    ELSE LET before == MergePrepend(event_list, to_merge, i - 1)
             closed == IF get_duration(before[1]) = 0
                       THEN [before EXCEPT ![1] = end(@, to_merge[i].first_presence_time)]
                       ELSE before
         IN  <<to_merge[i]>> \o closed

\* merge_tracks, second branch: the two while loops, from the lists
\* current_track, track_to_merge_event_list and new_event_list they have
\* reached; the set of event lists they can end with.
RECURSIVE MergeOuter(_, _, _), MergeInner(_, _, _)
MergeOuter(current_track, to_merge, new_event_list) ==
    IF Len(current_track) = 0 THEN {new_event_list \o to_merge}
    ELSE MergeInner(current_track, to_merge, new_event_list)

MergeInner(current_track, to_merge, new_event_list) ==
    IF Len(to_merge) = 0
    THEN MergeOuter(Tail(current_track), to_merge,
                    Append(new_event_list, Head(current_track)))
    ELSE UNION {
           IF later
           THEN MergeInner(current_track, Tail(to_merge),
                           Append([new_event_list EXCEPT
                                      ![1] = end(@, Head(to_merge).first_presence_time)],
                                  Head(to_merge)))
           ELSE MergeOuter(Tail(current_track), to_merge,
                           Append(new_event_list, Head(current_track)))
           : later \in TriggeredLater(Head(to_merge), Head(current_track))}

\* Variant: the second branch without "new_event_list.append(event_to_add)"
\* for the first event it takes.
MergeInterleave_first_dropped(current_track, to_merge) ==
    UNION {
      IF later
      THEN MergeOuter(current_track, Tail(to_merge), <<>>)
      ELSE MergeOuter(Tail(current_track), to_merge, <<>>)
      : later \in TriggeredLater(Head(to_merge), Head(current_track))}


\* merge_tracks, second branch: the event lists it can build.
MergeInterleave(current_track, to_merge) ==
    UNION {
      IF later
      THEN MergeOuter(current_track, Tail(to_merge), <<Head(to_merge)>>)
      ELSE MergeOuter(Tail(current_track), to_merge, <<Head(current_track)>>)
      : later \in TriggeredLater(Head(to_merge), Head(current_track))}

\* Track.merge_tracks: the set of tracks self can become.
merge_tracks(self, track_to_merge) ==
    IF self.last_event_time < track_to_merge.first_event_time
    THEN {[self EXCEPT
             !.event_list = MergePrepend(self.event_list, track_to_merge.event_list,
                                         Len(track_to_merge.event_list)),
             !.last_event_time = track_to_merge.last_event_time]}
    ELSE {[self EXCEPT !.event_list = merged] :
            merged \in MergeInterleave(self.event_list, track_to_merge.event_list)}

(* ---------------------------------------------------------------------- *)
(* TrackManager                                                            *)
(* ---------------------------------------------------------------------- *)
\* merge_tracks, first branch: what it leaves of the track merged in.  The
\* events inserted are the objects of that track's own list, so the closing
\* of the inserted head before the next insertion is a closing in that track
\* too.
MergedInAfterPrepend(to_merge) ==
    [k \in DOMAIN to_merge |->
        IF k < Len(to_merge) /\ get_duration(to_merge[k]) = 0
        THEN end(to_merge[k], to_merge[k + 1].first_presence_time)
        ELSE to_merge[k]]

\* Track.merge_tracks: what track_to_merge is afterwards (the second branch
\* works on copies).
merge_tracks_other(self, track_to_merge) ==
    IF self.last_event_time < track_to_merge.first_event_time
    THEN [track_to_merge EXCEPT !.event_list = MergedInAfterPrepend(@)]
    ELSE track_to_merge


\* try_associate_track, the metrics of one track for a new event in area at
\* event_time.
base_score(track, area) == get_distance(get_area(track), area)

HasPrevious(track) == Len(track.event_list) > 1
PreviousEvent(track) == track.event_list[2]

\* dt and dist of the track's last movement (dist only when dt > 0).
TrackDt(track) ==
    track.event_list[1].first_presence_time - PreviousEvent(track).first_presence_time
TrackDist(track) == get_distance(PreviousEvent(track).area, get_area(track))

\* The metrics loop raises NetworkXNoPath out of get_distance.
MetricsRaise(track, area) ==
    \/ base_score(track, area) = NoPath
    \/ HasPrevious(track) /\ TrackDt(track) > 0 /\ TrackDist(track) = NoPath

\* alignment: the shortest path from the previous room to area has the
\* track's current room as its second node.
alignment(track, area) ==
    /\ HasPrevious(track)
    /\ get_distance(PreviousEvent(track).area, area) >= 1
    /\ Adjacent(PreviousEvent(track).area, get_area(track))
    /\ get_distance(get_area(track), area)
          = get_distance(PreviousEvent(track).area, area) - 1

\* speed_diff as a fraction <<n, d>>; float("inf") is <<1, 0>>.
\* |base_score / dt_new - dist / dt| = |base_score * dt - dist * dt_new| / (dt_new * dt),
\* with dt and dt_new counted in steps of TrackTimeStep in the numerator and
\* in one factor of the denominator (all timestamps are multiples of it).
Infinite == <<1, 0>>
Abs(x) == IF x < 0 THEN -x ELSE x
speed_diff(track, area, event_time) ==
    LET dt_new == event_time - track.event_list[1].first_presence_time
    IN  IF dt_new > 0 /\ HasPrevious(track) /\ TrackDt(track) > 0
        THEN <<Abs(base_score(track, area) * (TrackDt(track) \div TrackTimeStep)
                   - TrackDist(track) * (dt_new \div TrackTimeStep)),
               (dt_new \div TrackTimeStep) * TrackDt(track)>>
        ELSE Infinite

\* x < y for two speed_diff values
SpeedLess(x, y) == x[1] * y[2] < y[1] * x[2]

\* m[1] < self.score_threshold
UnderThreshold(score) == score * score_threshold_den < score_threshold_num

\* Variant: the fallback without an aligned candidate takes the lowest
\* speed_diff instead of the lowest base_score.
BestCandidate_speed_fallback(trks, area, event_time) ==
    LET candidates == {i \in DOMAIN trks : UnderThreshold(base_score(trks[i], area))}
        aligned == {i \in candidates : alignment(trks[i], area)}
        pool == IF aligned # {} THEN aligned ELSE candidates
        sd(i) == speed_diff(trks[i], area, event_time)
    IN  IF pool = {} THEN 0
        ELSE CHOOSE i \in pool :
                /\ \A j \in pool : ~SpeedLess(sd(j), sd(i))
                /\ \A j \in pool : j < i => SpeedLess(sd(i), sd(j))

\* Variant: the lowest base_score decides, aligned or not.
BestCandidate_closest(trks, area, event_time) ==
    LET candidates == {i \in DOMAIN trks : UnderThreshold(base_score(trks[i], area))}
    IN  IF candidates = {} THEN 0
        ELSE CHOOSE i \in candidates :
                /\ \A j \in candidates :
                      base_score(trks[i], area) <= base_score(trks[j], area)
                /\ \A j \in candidates :
                      j < i => base_score(trks[i], area) < base_score(trks[j], area)

\* try_associate_track, "choose best candidate": the index of the track to
\* merge into, 0 for none.  The loop over the aligned candidates keeps the
\* first one of the lowest speed_diff; min() keeps the first one of the
\* lowest base_score.
BestCandidate(trks, area, event_time) ==
    LET candidates == {i \in DOMAIN trks : UnderThreshold(base_score(trks[i], area))}
        aligned == {i \in candidates : alignment(trks[i], area)}
        sd(i) == speed_diff(trks[i], area, event_time)
    IN  IF aligned # {}
        THEN CHOOSE i \in aligned :
                /\ \A j \in aligned : ~SpeedLess(sd(j), sd(i))
                /\ \A j \in aligned : j < i => SpeedLess(sd(i), sd(j))
        ELSE IF candidates # {}
        THEN CHOOSE i \in candidates :
                /\ \A j \in candidates :
                      base_score(trks[i], area) <= base_score(trks[j], area)
                /\ \A j \in candidates :
                      j < i => base_score(trks[i], area) < base_score(trks[j], area)
        ELSE 0

\* TrackManager.try_associate_track: the set of outcomes
\* [tracks, chosen, raised]; chosen is the index of the track merged into.
try_associate_track(trks, new_track) ==
    LET area == get_area(new_track)
        event_time == new_track.event_list[1].first_presence_time
    IN  IF Len(trks) = 0
        THEN {[tracks |-> <<new_track>>, chosen |-> 0, raised |-> FALSE]}
        ELSE IF \E i \in DOMAIN trks : MetricsRaise(trks[i], area)
        THEN {[tracks |-> trks, chosen |-> 0, raised |-> TRUE]}
        ELSE LET best == BestCandidate(trks, area, event_time)
             IN  IF best # 0
                 THEN {[tracks |-> [trks EXCEPT ![best] = merged],
                        chosen |-> best, raised |-> FALSE] :
                          merged \in merge_tracks(trks[best], new_track)}
                 ELSE {[tracks |-> Append(trks, new_track), chosen |-> 0,
                        raised |-> FALSE]}

RemoveAt(list, i) == SubSeq(list, 1, i - 1) \o SubSeq(list, i + 1, Len(list))

\* cleanup_tracks, the for loop from position i of the list it iterates
\* and mutates: removing the track at i moves the next track to position i,
\* which the iterator has passed.
RECURSIVE CleanupLoop(_, _, _, _)
CleanupLoop(trks, i, now, cfg) ==
    IF i > Len(trks) THEN trks
    ELSE CleanupLoop(
            IF now - trks[i].last_event_time > oldest_track THEN RemoveAt(trks, i)
            ELSE IF Len(trks[i].event_list) > cfg.max_track_length
                 THEN [trks EXCEPT ![i] = _trim(@)]
                 ELSE trks,
            i + 1, now, cfg)

\* self.tracks[-self.max_tracks:]
LastTracks(trks, n) == SubSeq(trks, Len(trks) - n + 1, Len(trks))

\* Variant: the housekeeping without the max_tracks slice.
cleanup_tracks_no_slice(trks, now, cfg) == CleanupLoop(trks, 1, now, cfg)

\* The number of tracks the max_tracks slice drops (it logs a warning then).
Evicted(trks, now, cfg) ==
    LET kept == CleanupLoop(trks, 1, now, cfg)
    IN  IF Len(kept) > cfg.max_tracks THEN Len(kept) - cfg.max_tracks ELSE 0

\* TrackManager.cleanup_tracks
cleanup_tracks(trks, now, cfg) ==
    LET kept == CleanupLoop(trks, 1, now, cfg)
    IN  IF Len(kept) > cfg.max_tracks THEN LastTracks(kept, cfg.max_tracks)
        ELSE kept

\* Variant: add_event without the is_area_in_graph test.
add_event_unchecked(trks, area, now, cfg) ==
    {[tracks |-> IF o.raised THEN trks ELSE cleanup_tracks(o.tracks, now, cfg),
      accepted |-> TRUE, chosen |-> o.chosen, raised |-> o.raised,
      evicted |-> IF o.raised THEN 0 ELSE Evicted(o.tracks, now, cfg)] :
        o \in try_associate_track(trks, NewTrack(area, now))}


\* TrackManager.add_event at now: the set of outcomes
\* [tracks, accepted, chosen, raised, evicted].  An exception leaves try_associate_track
\* before anything is written, and skips the housekeeping.
add_event(trks, area, now, cfg) ==
    IF ~is_area_in_graph(area)
    THEN {[tracks |-> trks, accepted |-> FALSE, chosen |-> 0, raised |-> FALSE,
           evicted |-> 0]}
    ELSE {[tracks |-> IF o.raised THEN trks ELSE cleanup_tracks(o.tracks, now, cfg),
           accepted |-> TRUE, chosen |-> o.chosen, raised |-> o.raised,
           evicted |-> IF o.raised THEN 0 ELSE Evicted(o.tracks, now, cfg)] :
             o \in try_associate_track(trks, NewTrack(area, now))}

\* One TrackManager.add_event call; lastCall.ret tells whether the room was
\* accepted, which track was merged into, whether NetworkXNoPath was raised
\* and how many tracks the max_tracks slice dropped.
AddEvent(area, now) ==
    /\ calls < MaxEvents
    /\ calls' = calls + 1
    /\ now \in TrackTimes
    /\ now >= clock
    /\ \E o \in add_event(tracks, area, now, config) :
          /\ tracks' = o.tracks
          /\ lastCall' = Call("add_event", None, area,
                              [accepted |-> o.accepted, chosen |-> o.chosen,
                               raised |-> o.raised, evicted |-> o.evicted])
    /\ clock' = now
    /\ UNCHANGED <<last_fire, presence, motion_state, people, phones, config, area_tree>>

(* ---------------------------------------------------------------------- *)
(* Part 3: freezing areas, area_tree.py (Area, Device, freeze_area,         *)
(* unfreeze_area, EventManager.execute_rule).                               *)
(* ---------------------------------------------------------------------- *)
\* The layout (layout.yml): home contains kitchen, kitchen contains pantry;
\* every area has a light, the kitchen also a motion sensor.
AreaNames == {"home", "kitchen", "pantry"}
SubAreas == [a \in AreaNames |->
                CASE a = "home" -> {"kitchen"}
                  [] a = "kitchen" -> {"pantry"}
                  [] OTHER -> {}]
DeviceArea == [d \in {"kauf_home", "kauf_kitchen", "kauf_pantry", "motion_sensor_kitchen"} |->
                  CASE d = "kauf_home" -> "home"
                    [] d = "kauf_pantry" -> "pantry"
                    [] OTHER -> "kitchen"]
DeviceNames == DOMAIN DeviceArea
\* Area.devices
AreaDevices(a) == {d \in DeviceNames : DeviceArea[d] = a}
\* hasattr(self.driver, "set_state"): the output drivers have it, the
\* sensor drivers do not.
DriverSetsState(d) == d # "motion_sensor_kitchen"
\* An area name the tree does not have, and the states handed to set_state
\* ({"status": 1} and {"status": 0}).
UnknownArea == "garden"
DeviceStates == {"on", "off"}

\* AreaTree after _create_area_tree: nothing frozen or locked, no state
\* cached.
NewAreaTree ==
    [frozen |-> [a \in AreaNames |-> FALSE],
     locked |-> [d \in DeviceNames |-> FALSE],
     cached_state |-> [d \in DeviceNames |-> None]]

\* The areas freeze(propagate) and unfreeze(propagate) visit from area a.
RECURSIVE Visited(_, _)
Visited(a, propagate) ==
    IF propagate THEN {a} \cup UNION {Visited(c, TRUE) : c \in SubAreas[a]}
    ELSE {a}

\* Area.freeze / Area.unfreeze: the flag value is written to the areas
\* visited, and lock(value) called on their devices.
SetFrozen(at, a, propagate, value) ==
    [at EXCEPT
       !.frozen = [x \in AreaNames |->
                      IF x \in Visited(a, propagate) THEN value ELSE at.frozen[x]],
       !.locked = [d \in DeviceNames |->
                      IF DeviceArea[d] \in Visited(a, propagate) THEN value
                      ELSE at.locked[d]]]

Area_freeze(at, a, propagate) == SetFrozen(at, a, propagate, TRUE)

\* Variant: unfreeze clears the flag and leaves the devices locked.
Area_unfreeze_keeps_locks(at, a, propagate) ==
    [at EXCEPT !.frozen = SetFrozen(at, a, propagate, FALSE).frozen]

Area_unfreeze(at, a, propagate) == SetFrozen(at, a, propagate, FALSE)

\* Area.set_state: the devices whose set_state it calls, directly or
\* through the set_state of its sub-areas; a frozen area returns at once.
RECURSIVE Reached(_, _)
Reached(at, a) ==
    IF at.frozen[a] THEN {}
    ELSE AreaDevices(a) \cup UNION {Reached(at, c) : c \in SubAreas[a]}

\* Device.set_state on each device of the set: applied through the driver
\* and cached unless the device is locked or its driver has no set_state.
Device_set_state(at, devices, state) ==
    [at EXCEPT
       !.cached_state = [d \in DeviceNames |->
                            IF d \in devices /\ ~at.locked[d] /\ DriverSetsState(d)
                            THEN state ELSE at.cached_state[d]]]

Area_set_state(at, a, state) == Device_set_state(at, Reached(at, a), state)

\* freeze_area(area_name, recursive) and unfreeze_area(area_name, recursive):
\* False for a name that is not in the tree.
FreezeArea(area_name, recursive) ==
    /\ area_tree' = IF area_name \in AreaNames
                    THEN Area_freeze(area_tree, area_name, recursive)
                    ELSE area_tree
    /\ lastCall' = Call("freeze_area", None, area_name, area_name \in AreaNames)
    /\ UNCHANGED <<clock, last_fire, presence, motion_state, people, phones, calls,
                   tracks, config>>

UnfreezeArea(area_name, recursive) ==
    /\ area_tree' = IF area_name \in AreaNames
                    THEN Area_unfreeze(area_tree, area_name, recursive)
                    ELSE area_tree
    /\ lastCall' = Call("unfreeze_area", None, area_name, area_name \in AreaNames)
    /\ UNCHANGED <<clock, last_fire, presence, motion_state, people, phones, calls,
                   tracks, config>>

\* Area.set_state(state) on area a.
AreaSetState(a, state) ==
    /\ area_tree' = Area_set_state(area_tree, a, state)
    /\ lastCall' = Call("Area.set_state", None, a, state)
    /\ UNCHANGED <<clock, last_fire, presence, motion_state, people, phones, calls,
                   tracks, config>>

\* EventManager.execute_rule for an event whose scope is the area a and
\* whose final state is state: "for areas in scope: areas.set_state(final_state)".
RouteEvent(a, state) ==
    /\ area_tree' = Area_set_state(area_tree, a, state)
    /\ lastCall' = Call("execute_rule", None, a, state)
    /\ UNCHANGED <<clock, last_fire, presence, motion_state, people, phones, calls,
                   tracks, config>>

(* ---------------------------------------------------------------------- *)
(* Specifications                                                          *)
(* ---------------------------------------------------------------------- *)
\* The Track interface used directly, as the merge tests do, on two tracks
\* (t1 and t2 of the tests, here tracks[1] and tracks[2]).
TrackPair == {1, 2}

\* Track() followed by add_event(area), at now.
TrackNew(area, now) ==
    /\ calls < MaxEvents
    /\ calls' = calls + 1
    /\ lastCall.op # "merge_tracks"
    /\ Len(tracks) < Cardinality(TrackPair)
    /\ now \in TrackTimes
    /\ now >= clock
    /\ tracks' = Append(tracks, NewTrack(area, now))
    /\ lastCall' = Call("Track", None, area, [self |-> Len(tracks) + 1])
    /\ clock' = now
    /\ UNCHANGED <<last_fire, presence, motion_state, people, phones, config, area_tree>>

\* tracks[i].add_event(area, impulse) at now.
TrackAddEvent(i, area, is_impulse, now) ==
    /\ calls < MaxEvents
    /\ calls' = calls + 1
    /\ lastCall.op # "merge_tracks"
    /\ i \in DOMAIN tracks
    /\ now \in TrackTimes
    /\ now >= clock
    /\ tracks' = [tracks EXCEPT ![i] = Track_add_event(@, area, is_impulse, now)]
    /\ lastCall' = Call("Track.add_event", None, area, [self |-> i])
    /\ clock' = now
    /\ UNCHANGED <<last_fire, presence, motion_state, people, phones, config, area_tree>>

\* tracks[i].merge_tracks(tracks[j]).  After the first merge the two tracks
\* can hold the same Event objects; every later merge of the two takes the
\* second branch, which reads them and writes copies, and the calls that
\* write to events (add_event) are made before the first merge only.
MergeTracks(i, j) ==
    /\ calls < MaxEvents
    /\ calls' = calls + 1
    /\ i \in DOMAIN tracks
    /\ j \in DOMAIN tracks
    /\ i # j
    /\ \E merged \in merge_tracks(tracks[i], tracks[j]) :
          tracks' = [tracks EXCEPT ![i] = merged,
                                   ![j] = merge_tracks_other(tracks[i], tracks[j])]
    /\ lastCall' = Call("merge_tracks", None, None, [self |-> i, other |-> j])
    /\ UNCHANGED <<clock, last_fire, presence, motion_state, people, phones, config, area_tree>>


\* One call of a method of the Event tracks[i].event_list[k], at now.
EventMethods == {"impulse", "presence", "absence", "end"}
EventCall(method, i, k, end_timestamp, now) ==
    /\ calls < MaxEvents
    /\ calls' = calls + 1
    /\ i \in DOMAIN tracks
    /\ k \in DOMAIN tracks[i].event_list
    /\ now \in TrackTimes
    /\ now >= clock
    /\ method = "end" \/ end_timestamp = NoTime
    /\ tracks' = [tracks EXCEPT ![i].event_list[k] =
                     CASE method = "impulse" -> Event_impulse(@, now)
                       [] method = "presence" -> Event_presence(@, now)
                       [] method = "absence" -> Event_absence(@, now)
                       [] method = "end" -> Event_end(@, end_timestamp, now)]
    /\ lastCall' = Call(method, None, None, [self |-> i, event |-> k])
    /\ clock' = now
    /\ UNCHANGED <<last_fire, presence, motion_state, people, phones, config, area_tree>>


Flags == {"True", "False"}

Init ==
    /\ clock = 0
    /\ last_fire = [r \in Nodes |-> 0]
    /\ presence = [r \in Nodes |-> None]
    /\ motion_state = [r \in Nodes |-> FALSE]
    /\ people = <<>>
    /\ phones = <<>>
    /\ lastCall = Call("init", None, None, None)
    /\ calls = 0
    /\ tracks = <<>>
    /\ config = DefaultConfig
    /\ area_tree = NewAreaTree

\* One tracked person: sightings, ticks and presence reports.
Next ==
    \/ \E room_id \in Nodes, now \in Times : ProcessEvent("p1", room_id, now)
    \/ \E now \in Times : Step(now)
    \/ \E room_id \in Nodes, present \in Flags, now \in Times :
          RecordPresence(room_id, present, now)

Spec == Init /\ [][Next]_vars

\* Several persons, one of them without an id: sightings only.
NextPeople ==
    \E person_id \in PersonIds, room_id \in Nodes, now \in Times :
        ProcessEvent(person_id, room_id, now)

SpecPeople == Init /\ [][NextPeople]_vars

\* A SensorModel driven directly.
NextSensor ==
    \/ \E room_id \in Nodes, now \in Times : RecordTrigger(room_id, now)
    \/ \E room_id \in Nodes, present \in Flags : SetPresence(room_id, present)
    \/ \E room_id \in Nodes, now \in Times : LikelihoodStillPresent(room_id, now)

SpecSensor == Init /\ [][NextSensor]_vars

\* One person and their phone: registration, association, phone reports and
\* the read-only snapshots, with one room that can be flagged as absent.
NextPhones ==
    \/ \E phone_id \in PhoneIds : AddPhone(phone_id)
    \/ AssociatePhone(OwnedPhone, "p1")
    \/ \E phone_id \in PhoneIds, room_id \in Nodes, now \in Times :
          ProcessPhoneData(phone_id, room_id, now)
    \/ SetPresence("bedroom", "False")
    \/ EstimateLocations
    \/ DumpState

SpecPhones == Init /\ [][NextPhones]_vars

\* Two persons and a phone that passes between them: association, direct
\* sightings and phone reports.
NextOwners ==
    \/ \E person_id \in PhoneOwners : AssociatePhone(OwnedPhone, person_id)
    \/ \E person_id \in PhoneOwners, room_id \in SightedRooms, now \in Times :
          ProcessEvent(person_id, room_id, now)
    \/ \E room_id \in SightedRooms, now \in Times :
          ProcessPhoneData(OwnedPhone, room_id, now)

SpecOwners == Init /\ [][NextOwners]_vars

\* A sensor reporting a room the graph does not have.
InitOffGraph ==
    /\ clock = 0
    /\ last_fire = [r \in SensorRooms |-> 0]
    /\ presence = [r \in SensorRooms |-> None]
    /\ motion_state = [r \in SensorRooms |-> FALSE]
    /\ people = <<>>
    /\ phones = <<>>
    /\ lastCall = Call("init", None, None, None)
    /\ calls = 0
    /\ tracks = <<>>
    /\ config = DefaultConfig
    /\ area_tree = NewAreaTree

NextOffGraph ==
    \/ \E room_id \in SensorRooms, now \in Times : ProcessEvent("p1", room_id, now)
    \/ \E now \in Times : Step(now)
    \/ \E room_id \in Nodes, present \in Flags, now \in Times :
          RecordPresence(room_id, present, now)

SpecOffGraph == InitOffGraph /\ [][NextOffGraph]_vars

\* A TrackManager fed with room events.
NextTracks == \E area \in TrackRooms, now \in TrackTimes : AddEvent(area, now)

SpecTracks == Init /\ [][NextTracks]_vars

\* A TrackManager fed, from empty, with a chain of rooms: every room is
\* nearer than score_threshold to the room of the call before.
NearPrevious(area) ==
    \/ calls = 0
    \/ /\ get_distance(lastCall.room, area) # NoPath
       /\ UnderThreshold(get_distance(lastCall.room, area))

NextChain ==
    \E area \in ChainRooms, now \in TrackTimes : NearPrevious(area) /\ AddEvent(area, now)

SpecChain == Init /\ [][NextChain]_vars

\* Two tracks built through the Track interface, then merged.
MergeRooms == {"bedroom", "hallway"}

NextMerge ==
    \/ \E area \in MergeRooms, now \in TrackTimes : TrackNew(area, now)
    \/ \E i \in TrackPair, area \in MergeRooms, is_impulse \in BOOLEAN,
          now \in TrackTimes : TrackAddEvent(i, area, is_impulse, now)
    \/ \E i \in TrackPair, j \in TrackPair : MergeTracks(i, j)

SpecMerge == Init /\ [][NextMerge]_vars


\* The lifecycle of Events: tracks built through the Track interface, and
\* the Event methods called on their events.
EventRooms == {"bedroom", "hallway"}
NextEvents ==
    \/ \E area \in EventRooms, now \in TrackTimes : TrackNew(area, now)
    \/ \E i \in TrackPair, area \in EventRooms, now \in TrackTimes :
          TrackAddEvent(i, area, TRUE, now)
    \/ \E method \in EventMethods, i \in TrackPair, k \in 1..max_length,
          end_timestamp \in TrackTimes \cup {NoTime}, now \in TrackTimes :
          EventCall(method, i, k, end_timestamp, now)

SpecEvents == Init /\ [][NextEvents]_vars

\* Freezing and unfreezing areas, with and without propagation, between
\* state changes and routed events.
NextAreas ==
    \/ \E area_name \in AreaNames \cup {UnknownArea}, recursive \in BOOLEAN :
          FreezeArea(area_name, recursive)
    \/ \E area_name \in AreaNames \cup {UnknownArea}, recursive \in BOOLEAN :
          UnfreezeArea(area_name, recursive)
    \/ \E a \in AreaNames, state \in DeviceStates : AreaSetState(a, state)
    \/ \E a \in AreaNames, state \in DeviceStates : RouteEvent(a, state)

SpecAreas == Init /\ [][NextAreas]_vars


\* Housekeeping: a TrackManager constructed with a configured
\* max_track_length and max_tracks, and events in rooms that are far from
\* each other or missing from the graph.
ConfiguredLengths == {2, max_track_length}
ConfiguredTracks == {2, max_tracks}
HouseRooms == {"bedroom", "dining_room", "office", OffGraphRoom}

InitHouse ==
    /\ clock = 0
    /\ last_fire = [r \in Nodes |-> 0]
    /\ presence = [r \in Nodes |-> None]
    /\ motion_state = [r \in Nodes |-> FALSE]
    /\ people = <<>>
    /\ phones = <<>>
    /\ lastCall = Call("init", None, None, None)
    /\ calls = 0
    /\ tracks = <<>>
    /\ config \in [max_track_length : ConfiguredLengths, max_tracks : ConfiguredTracks]
    /\ area_tree = NewAreaTree

NextHouse == \E area \in HouseRooms, now \in TrackTimes : AddEvent(area, now)

SpecHouse == InitHouse /\ [][NextHouse]_vars

(* ---------------------------------------------------------------------- *)
(* Claims about the PersonTracker (checked under Spec)                     *)
(* ---------------------------------------------------------------------- *)
One == floor_prob_den
ParticlesOf(pid) == people[pid].tracker.particles
Rooms(particles) == {particles[i] : i \in DOMAIN particles}
NoSensorRoom == {"step", "record_presence"}

\* C1: after process_event(p, R, t) every particle of p's tracker is in R
\* and estimate() returns R, whatever the tracker and the SensorModel were
\* before (explicit presence flags included).
C1_SightingSnapsEstimate ==
    lastCall.op = "process_event" =>
        /\ \A i \in DOMAIN ParticlesOf(lastCall.who) :
              ParticlesOf(lastCall.who)[i] = lastCall.room
        /\ estimate(ParticlesOf(lastCall.who)) = lastCall.room
        /\ estimate_locations[lastCall.who] = lastCall.room

\* C2: a tracker always holds the num_particles particles it was built with.
C2_ParticleCountFixed ==
    \A pid \in DOMAIN people : Len(ParticlesOf(pid)) = NumParticles

\* C3: when every weight is zero after reweighting, resampling draws from the
\* current particles as if the weights were uniform, so no particle is lost.
\* The case checked: a sighting in a room whose explicit presence is False
\* (every particle is snapped to that room and weighs 0.0 * 2).
C3_ZeroWeightsKeepParticles ==
    [][(/\ lastCall'.op = "process_event"
        /\ presence[lastCall'.room] = "False")
       => Len(people'[lastCall'.who].tracker.particles) =
            (IF lastCall'.who \in DOMAIN people
             THEN Len(ParticlesOf(lastCall'.who)) ELSE NumParticles)]_vars

\* C4: for a tracker with at least one particle the values of distribution()
\* sum to 1: every value is count/total with the same total > 0 and the
\* counts sum to total; without particles distribution() is empty.
RECURSIVE SumCounts(_, _)
SumCounts(d, rooms) ==
    IF rooms = {} THEN 0
    ELSE LET r == CHOOSE x \in rooms : TRUE
         IN  d[r][1] + SumCounts(d, rooms \ {r})

C4_DistributionSumsToOne ==
    \A pid \in DOMAIN people :
        LET d == distribution(ParticlesOf(pid))
        IN  IF Len(ParticlesOf(pid)) = 0 THEN DOMAIN d = {}
            ELSE /\ DOMAIN d # {}
                 /\ \A r \in DOMAIN d : d[r][2] > 0 /\ d[r][2] = Len(ParticlesOf(pid))
                 /\ SumCounts(d, DOMAIN d) = Len(ParticlesOf(pid))

\* C4 witness: a tracker that lost a particle and still holds one, and a
\* tracker whose particles are spread over two rooms, both occur.
C4_Witness ==
    \E pid \in DOMAIN people :
        /\ Len(ParticlesOf(pid)) > 0
        /\ Len(ParticlesOf(pid)) < NumParticles

C4_WitnessSpread ==
    \E pid \in DOMAIN people : Cardinality(Rooms(ParticlesOf(pid))) >= 2

\* C9 as claimed: update(now) without sensor_room moves particles only when
\* the last direct observation is older than the cooldown; while
\* now - last_sensor_time < cooldown no particle is moved, so every particle
\* is afterwards in a room that held a particle before the call.
C9_RecentSightingFreezes ==
    [][\A pid \in DOMAIN people :
         (/\ lastCall'.op \in NoSensorRoom
          /\ people[pid].tracker.last_sensor_room # None
          /\ clock' - people[pid].tracker.last_sensor_time < cooldown)
         => Rooms(people'[pid].tracker.particles) \subseteq Rooms(ParticlesOf(pid))]_vars

\* C9 as amended: update(now) without sensor_room applies the motion model on
\* every call, whatever the age of the last direct observation.  For a
\* tracker whose particles all sit in the last sighted room R, an update at
\* any time now, also with now - last_sensor_time < cooldown, can leave a
\* particle in a graph neighbour of R.
C9_MotionModelAlwaysApplies ==
    \A pid \in DOMAIN people :
        LET tr == people[pid].tracker
        IN  (/\ Len(tr.particles) > 0
             /\ \A i \in DOMAIN tr.particles : tr.particles[i] = tr.last_sensor_room)
            => \A now \in {t \in Times : t >= clock} :
                 \E o \in update(tr, SM, now, None) :
                    \E i \in DOMAIN o.tr.particles :
                       o.tr.particles[i] \in get_neighbors(tr.last_sensor_room)

\* C9 witness: right after a sighting, a tick at a time inside the cooldown
\* has left a particle outside the sighted room.
C9_Witness ==
    /\ lastCall.op = "step"
    /\ calls = 2
    /\ \E pid \in DOMAIN people :
          /\ clock - people[pid].tracker.last_sensor_time < cooldown
          /\ \E i \in DOMAIN ParticlesOf(pid) :
                ParticlesOf(pid)[i] # people[pid].tracker.last_sensor_room

(* ---------------------------------------------------------------------- *)
(* Claims about the MultiPersonTracker (checked under SpecPeople)          *)
(* ---------------------------------------------------------------------- *)
UnknownIds == {"unknown_0", "unknown_1", "unknown_2", "unknown_3"}
IsAnonymousEvent == lastCall.op = "process_event" /\ lastCall.who = None

Likelihood(room_id, now) == likelihood_still_present(SM, room_id, now)
IsCall(op, room_id) == lastCall.op = op /\ lastCall.room = room_id
OverrideValue(flag) == IF flag = "True" THEN One ELSE 0

\* C5: explicit presence overrides time decay.  A set_presence(r, flag) call
\* makes likelihood_still_present(r, t) 1.0 (flag True) or 0.0 (flag False)
\* for every t, and every later call other than a set_presence on r, record_trigger
\* calls and queries at any time included, leaves the flag and that value.
C5_PresenceOverrides ==
    [][\A r \in Nodes :
         /\ IsCall("set_presence", r)' =>
               /\ presence'[r] = lastCall'.ret
               /\ \A t \in Times : Likelihood(r, t)' = OverrideValue(lastCall'.ret)
         /\ (presence[r] # None /\ ~IsCall("set_presence", r)') =>
               /\ presence'[r] = presence[r]
               /\ \A t \in Times : Likelihood(r, t)' = OverrideValue(presence[r])
               /\ (IsCall("likelihood_still_present", r)' =>
                      lastCall'.ret = OverrideValue(presence[r]))]_vars

\* C5 witness: a room flagged absent has just been triggered (its window is
\* open and fresh), and a room flagged present is queried after its window
\* has run out.
C5_Witness ==
    \E r \in Nodes :
        /\ presence[r] = "False"
        /\ IsCall("record_trigger", r)
        /\ motion_state[r] /\ last_fire[r] = clock

C5_WitnessStale ==
    \E r \in Nodes :
        /\ presence[r] = "True"
        /\ IsCall("likelihood_still_present", r)
        /\ motion_state[r] /\ clock - last_fire[r] >= cooldown

\* C6: chattering does not extend confidence.  A record_trigger(r, ti) that
\* arrives while r's window is open (t0 <= ti < t0 + cooldown, t0 the recorded
\* trigger time) leaves the recorded trigger time at t0 and the window open,
\* raises likelihood_still_present(r, t) for no t, and leaves it at
\* floor_prob for every t >= t0 + cooldown (for a room without an explicit
\* presence flag, which would override the decay: C5).
InWindow(r, t) == motion_state[r] /\ last_fire[r] <= t /\ t < last_fire[r] + cooldown

C7_LinearDecay ==
    \A r \in Nodes :
        (/\ IsCall("likelihood_still_present", r)
         /\ presence[r] = None
         /\ motion_state[r]
         /\ last_fire[r] < clock /\ clock < last_fire[r] + cooldown)
        => (floor_prob_num < lastCall.ret /\ lastCall.ret < One)

\* C7 as amended: without an explicit flag a query returns 1.0 throughout the
\* window (trigger time <= t < trigger time + cooldown) and floor_prob from
\* trigger time + cooldown on, and floor_prob for a room whose window is not open.
C7_HoldThenFloor ==
    [][\A r \in Nodes :
         (IsCall("likelihood_still_present", r)' /\ presence[r] = None) =>
            lastCall'.ret =
               (IF motion_state[r] /\ clock' < last_fire[r] + cooldown
                THEN One ELSE floor_prob_num)]_vars

\* C7 witness: a query part-way through an open window returned 1.0.
C7_Witness ==
    \E r \in Nodes :
        /\ IsCall("likelihood_still_present", r)
        /\ presence[r] = None
        /\ motion_state[r]
        /\ last_fire[r] < clock /\ clock < last_fire[r] + cooldown
        /\ lastCall.ret = One

\* C8 as claimed: a likelihood_still_present call leaves the last trigger
\* time, the motion-active flag and the explicit presence of every room
\* unchanged.
C8_QueryChangesNothing ==
    [][lastCall'.op = "likelihood_still_present" =>
          UNCHANGED <<last_fire, motion_state, presence>>]_vars

\* C8 as amended: last trigger times change only in record_trigger calls and
\* explicit presence only in set_presence calls; a likelihood_still_present
\* call leaves both, and changes the motion-active flag of the queried room
\* only, and only by clearing it once the cooldown has elapsed since the last
\* trigger of a room without an explicit presence flag.
C8_QueryOnlyExpiresWindow ==
    [][/\ lastCall'.op # "record_trigger" => last_fire' = last_fire
       /\ lastCall'.op # "set_presence" => presence' = presence
       /\ lastCall'.op = "set_presence" => motion_state' = motion_state
       /\ lastCall'.op = "likelihood_still_present" =>
             \A r \in Nodes :
                motion_state'[r] # motion_state[r] =>
                   /\ r = lastCall'.room
                   /\ motion_state[r] /\ ~motion_state'[r]
                   /\ presence[r] = None
                   /\ clock' - last_fire[r] >= cooldown]_vars

\* C8 witness: a query has just cleared the motion-active flag of a room
\* that had been triggered.
C8_Witness ==
    \E r \in Nodes :
        /\ IsCall("likelihood_still_present", r)
        /\ last_fire[r] > 0
        /\ ~motion_state[r]
        /\ clock - last_fire[r] >= cooldown

(* ---------------------------------------------------------------------- *)
(* Claims about phones (checked under SpecPhones and SpecOwners)           *)
(* ---------------------------------------------------------------------- *)
OwnerOf(phone_id) ==
    IF phone_id \in DOMAIN phones THEN phones[phone_id].person_id ELSE None
IsPhoneReport == lastCall.op = "process_phone_data"

\* C11: for a phone associated with person p, process_phone_data(ph, r, t)
\* leaves people and the SensorModel as process_event(p, r, t) would, so that
\* the estimate for p is r, and records last_room = r and last_seen = t on
\* the phone.
C11_PhoneReportIsSighting ==
    [][(IsPhoneReport' /\ OwnerOf(lastCall'.who) # None) =>
          /\ \E o \in process_event(people, SM, OwnerOf(lastCall'.who),
                                    lastCall'.room, clock') :
                people' = o.people /\ SM' = o.sm
          /\ estimate_locations'[OwnerOf(lastCall'.who)] = lastCall'.room
          /\ phones'[lastCall'.who].last_room = lastCall'.room
          /\ phones'[lastCall'.who].last_seen = clock']_vars

\* C12: process_phone_data for a phone without a person (registered or not
\* seen before) only records that phone's last_room and last_seen: people
\* (its keys, every tracker and every phones list) and the SensorModel are
\* unchanged, every other phone is unchanged, and nothing is raised.
C12_UnownedPhoneOnlyRecorded ==
    [][(IsPhoneReport' /\ OwnerOf(lastCall'.who) = None) =>
          /\ people' = people
          /\ UNCHANGED <<last_fire, presence, motion_state>>
          /\ DOMAIN phones' = DOMAIN phones \cup {lastCall'.who}
          /\ phones'[lastCall'.who] = [person_id |-> None,
                                       last_room |-> lastCall'.room,
                                       last_seen |-> clock']
          /\ \A ph \in DOMAIN phones : ph # lastCall'.who => phones'[ph] = phones[ph]
          /\ lastCall'.ret = None]_vars

\* C12 witness: a report of a phone without a person has been recorded while
\* a person with a tracker exists.
C12_Witness ==
    /\ IsPhoneReport
    /\ phones[lastCall.who].person_id = None
    /\ phones[lastCall.who].last_room = lastCall.room
    /\ DOMAIN people # {}

\* C13: a phone belongs to at most one person at a time: in dump_state() a
\* phone is in the phones list of a person exactly when that person is the
\* phone's person.
C13_PhoneHasOneOwner ==
    \A ph \in DOMAIN dump_state.phones : \A pid \in DOMAIN dump_state.people :
        InList(dump_state.people[pid].phones, ph) <=> dump_state.phones[ph].person = pid

\* C14: estimate_locations() and dump_state() change no tracker, no
\* SensorModel state and no person or phone record, and what they return is
\* a function of that unchanged state, so a dump_state() repeated without an
\* update in between returns the same output.
C14_SnapshotsReadOnly ==
    [][/\ lastCall'.op = "estimate_locations" =>
             /\ UNCHANGED <<clock, last_fire, presence, motion_state, people, phones>>
             /\ lastCall'.ret = estimate_locations
       /\ lastCall'.op = "dump_state" =>
             /\ UNCHANGED <<clock, last_fire, presence, motion_state, people, phones>>
             /\ lastCall'.ret = dump_state
             /\ lastCall'.ret = dump_state']_vars

\* C14 witness: dump_state() has been called on a tracker with a person
\* whose phone has reported a room.
C14_Witness ==
    /\ lastCall.op = "dump_state"
    /\ \E pid \in DOMAIN people, ph \in DOMAIN phones :
          /\ phones[ph].person_id = pid
          /\ phones[ph].last_room # None
          /\ lastCall.ret.people[pid].phones = <<ph>>

\* C15: a sighting of person p, direct or through p's phone, changes the
\* particles, last_sensor_room and last_sensor_time of p's tracker only.
SightedPerson ==
    IF lastCall.op = "process_event" THEN lastCall.who
    ELSE IF IsPhoneReport THEN OwnerOf(lastCall.who)
    ELSE None

C15_TrackersIsolated ==
    [][lastCall'.op \in {"process_event", "process_phone_data"} =>
          \A q \in DOMAIN people :
             q # SightedPerson' => people'[q].tracker = people[q].tracker]_vars

\* C15 witness: with two persons, a phone report has snapped its owner's
\* particles to a room while the other person has a particle elsewhere.
C15_Witness ==
    /\ IsPhoneReport
    /\ \E p \in DOMAIN people, q \in DOMAIN people :
          /\ p # q
          /\ p = OwnerOf(lastCall.who)
          /\ people[p].tracker.last_sensor_room = lastCall.room
          /\ \E i \in DOMAIN ParticlesOf(q) : ParticlesOf(q)[i] # lastCall.room

(* ---------------------------------------------------------------------- *)
(* Claims about rooms outside the graph (checked under SpecOffGraph)       *)
(* ---------------------------------------------------------------------- *)
\* C16: a sighting in a room that is not a node of the RoomGraph is ignored:
\* no particle is ever in such a room, and no step, record_presence or
\* process_event call raises.
C16_OffGraphSightingIgnored ==
    /\ \A pid \in DOMAIN people : \A i \in DOMAIN ParticlesOf(pid) :
          ParticlesOf(pid)[i] \in Nodes
    /\ lastCall.ret # "NetworkXError"

(* ---------------------------------------------------------------------- *)
(* Claims about the TrackManager (checked under SpecChain and SpecTracks)  *)
(* ---------------------------------------------------------------------- *)
Areas(track) == [k \in DOMAIN track.event_list |-> track.event_list[k].area]
IsAddEvent == lastCall.op = "add_event"
Accepted == IsAddEvent /\ lastCall.ret.accepted
Completed == Accepted /\ ~lastCall.ret.raised

\* C17: from an empty TrackManager, add_event calls for rooms r1, ..., rn,
\* each nearer than score_threshold to the one before, leave exactly one
\* track listing the rooms newest first: every call puts its room in front
\* of the rooms the single track listed before, and makes it the head room.
C17_ChainBuildsOneTrack ==
    [][IsAddEvent' =>
          /\ Len(tracks') = 1
          /\ Areas(tracks'[1]) =
                <<lastCall'.room>> \o (IF Len(tracks) = 0 THEN <<>> ELSE Areas(tracks[1]))
          /\ get_area(tracks'[1]) = lastCall'.room]_vars

\* The candidate sets of the claims, for the call that led to the next
\* state: the tracks held before it, the room and the clock value of the call.
UnderThresholdTracks(area) ==
    {i \in DOMAIN tracks :
        /\ base_score(tracks[i], area) # NoPath
        /\ UnderThreshold(base_score(tracks[i], area))}
AlignedTracks(area) == {i \in UnderThresholdTracks(area) : alignment(tracks[i], area)}

\* The call merged its event into the track that was tracks[i]: afterwards
\* some track started when tracks[i] started, has one more event and holds
\* an event of the call's room created at the call's clock value.
MergedInto(i) ==
    \E k \in DOMAIN tracks' :
        /\ tracks'[k].first_event_time = tracks[i].first_event_time
        /\ Len(tracks'[k].event_list) = Len(tracks[i].event_list) + 1
        /\ \E n \in DOMAIN tracks'[k].event_list :
              tracks'[k].event_list[n] = Event(lastCall'.room, clock')
        /\ \A m \in DOMAIN tracks[i].event_list :
              \E n \in DOMAIN tracks'[k].event_list :
                 /\ tracks'[k].event_list[n].area = tracks[i].event_list[m].area
                 /\ tracks'[k].event_list[n].first_presence_time =
                       tracks[i].event_list[m].first_presence_time

\* C18: a new room-event is merged only into a track whose head room is
\* nearer than score_threshold; when no track is, every track held afterwards
\* except the last is one held before, unchanged, and the last is the new
\* single-event track.
C18_MergeOnlyUnderThreshold ==
    [][Accepted' =>
          /\ lastCall'.ret.chosen # 0 =>
                /\ lastCall'.ret.chosen \in UnderThresholdTracks(lastCall'.room)
                /\ MergedInto(lastCall'.ret.chosen)
          /\ UnderThresholdTracks(lastCall'.room) = {} =>
                /\ lastCall'.ret.chosen = 0
                /\ Len(tracks') >= 1
                /\ tracks'[Len(tracks')] = NewTrack(lastCall'.room, clock')
                /\ \A k \in 1..(Len(tracks') - 1) :
                      \E i \in DOMAIN tracks : tracks'[k] = tracks[i]]_vars

C20_FallbackLowestSpeedDiff ==
    [][(Accepted' /\ AlignedTracks(lastCall'.room) = {} /\ lastCall'.ret.chosen # 0) =>
          /\ \A j \in UnderThresholdTracks(lastCall'.room) :
                ~SpeedLess(speed_diff(tracks[j], lastCall'.room, clock'),
                           speed_diff(tracks[lastCall'.ret.chosen], lastCall'.room, clock'))
          /\ (\A j \in UnderThresholdTracks(lastCall'.room) :
                 speed_diff(tracks[j], lastCall'.room, clock') = Infinite)
             => \A j \in UnderThresholdTracks(lastCall'.room) :
                   base_score(tracks[lastCall'.ret.chosen], lastCall'.room)
                      <= base_score(tracks[j], lastCall'.room)]_vars

\* C20 as amended: when no track under the threshold is aligned, the track
\* merged into is the one of the lowest graph distance, the first such track
\* of the list when several are equally near; the speed discrepancy is not
\* consulted, with or without timing data.  (A call that raises merges into
\* no track.)
C20_FallbackClosest ==
    [][(Accepted' /\ AlignedTracks(lastCall'.room) = {}) =>
          /\ (Completed' /\ UnderThresholdTracks(lastCall'.room) # {}) =>
                lastCall'.ret.chosen # 0
          /\ lastCall'.ret.chosen # 0 =>
                /\ lastCall'.ret.chosen \in UnderThresholdTracks(lastCall'.room)
                /\ \A j \in UnderThresholdTracks(lastCall'.room) :
                      /\ base_score(tracks[lastCall'.ret.chosen], lastCall'.room)
                            <= base_score(tracks[j], lastCall'.room)
                      /\ j < lastCall'.ret.chosen =>
                            base_score(tracks[lastCall'.ret.chosen], lastCall'.room)
                               < base_score(tracks[j], lastCall'.room)
                /\ MergedInto(lastCall'.ret.chosen)]_vars

\* C20 witness: with no aligned track, the event was merged into a nearer
\* track without timing data (it held one event) while a track with timing
\* data (two events at different times) was under the threshold, farther away.
C20_Witness ==
    /\ Completed
    /\ lastCall.ret.chosen # 0
    /\ \E k \in DOMAIN tracks, j \in DOMAIN tracks :
          /\ j # k
          /\ Len(tracks[k].event_list) = 2
          /\ tracks[k].event_list[1] = Event(lastCall.room, clock)
          /\ get_distance(tracks[k].event_list[2].area, lastCall.room) = 1
          /\ Len(tracks[j].event_list) = 2
          /\ tracks[j].last_event_time < clock
          /\ TrackDt(tracks[j]) > 0
          /\ get_distance(get_area(tracks[j]), lastCall.room) = 2
          /\ ~alignment(tracks[j], lastCall.room)

\* C21: TrackManager.add_event for a room that is not a node of the graph
\* is ignored: the list of tracks and every event in them are as before the
\* call, and no exception reaches the caller.
C21_OffGraphEventIgnored ==
    [][(IsAddEvent' /\ ~is_area_in_graph(lastCall'.room)) =>
          /\ tracks' = tracks
          /\ ~lastCall'.ret.accepted
          /\ ~lastCall'.ret.raised]_vars

\* C21 witness: an event for the off-graph room was handed to a manager
\* holding tracks, one of them with several events.
C21_Witness ==
    /\ IsAddEvent
    /\ lastCall.room = OffGraphRoom
    /\ ~is_area_in_graph(lastCall.room)
    /\ Len(tracks) >= 2
    /\ \E k \in DOMAIN tracks : Len(tracks[k].event_list) >= 2


\* C22: after an add_event call that ran the housekeeping, no track held has
\* been idle (clock value of the call - last_event_time) longer than
\* oldest_track, however many stale tracks there were and wherever in the
\* list.
C22_NoStaleTrackLeft ==
    Completed =>
        \A k \in DOMAIN tracks : clock - tracks[k].last_event_time <= oldest_track


\* C23: after every add_event call the TrackManager holds at most
\* max_tracks tracks (the configured value).
C23_AtMostMaxTracks == Len(tracks) <= config.max_tracks

\* C23 witness: a call appended a track to a full list, and the slice
\* dropped one.
C23_Witness ==
    /\ Completed
    /\ lastCall.ret.evicted = 1
    /\ lastCall.ret.chosen = 0
    /\ Len(tracks) = config.max_tracks
    /\ tracks[Len(tracks)] = NewTrack(lastCall.room, clock)


\* C24: when the track count exceeds max_tracks, the tracks evicted are
\* those updated longest ago: no evicted track has a later last_event_time
\* than a track that is kept.  (The count grows only by a track appended, so
\* the list the slice cuts is the list held before, with the new track, after
\* the removal of stale tracks.)
C24_EvictsOldestUpdated ==
    [][(Completed' /\ lastCall'.ret.evicted > 0 /\ lastCall'.ret.chosen = 0) =>
          LET kept == CleanupLoop(Append(tracks, NewTrack(lastCall'.room, clock')),
                                  1, clock', config)
          IN  \A i \in 1..lastCall'.ret.evicted :
                 \A k \in (lastCall'.ret.evicted + 1)..Len(kept) :
                    kept[i].last_event_time <= kept[k].last_event_time]_vars


\* The event list of track is the newest events of the list of full, in
\* their order.
NewestKept(track, full) ==
    /\ Len(track.event_list) <= Len(full.event_list)
    /\ track.event_list = SubSeq(full.event_list, 1, Len(track.event_list))

\* C25: after every accepted add_event call every track held has at most
\* max_track_length events, whatever value the manager was constructed with,
\* and a track that the call extended holds the newest events of the merge,
\* head included.
C25_TracksWithinConfiguredLength ==
    [][Accepted' =>
          /\ \A k \in DOMAIN tracks' :
                Len(tracks'[k].event_list) <= config.max_track_length
          /\ (lastCall'.ret.chosen # 0 /\ Len(tracks') = Len(tracks)) =>
                \E merged \in merge_tracks(tracks[lastCall'.ret.chosen],
                                           NewTrack(lastCall'.room, clock')) :
                   NewestKept(tracks'[lastCall'.ret.chosen], merged)]_vars


\* C26: TrackManager.add_event never surfaces an exception to its caller,
\* for any room and any connectivity graph, also when the new room and the
\* head room of a track held are in different connected components.
C26_AddEventNeverRaises == IsAddEvent => ~lastCall.ret.raised


\* The merge claims speak of the call tracks[self].merge_tracks(tracks[other])
\* that led to the next state.
IsMerge == lastCall.op = "merge_tracks"
NewestFirst(track) ==
    \A k \in 1..(Len(track.event_list) - 1) :
        track.event_list[k].first_presence_time
            >= track.event_list[k + 1].first_presence_time
Stamps(event_list) ==
    [k \in DOMAIN event_list |->
        <<event_list[k].area, event_list[k].first_presence_time>>]

\* C27: for two tracks A and B that are each newest-first, after
\* A.merge_tracks(B) the events of A have non-increasing first_presence_time
\* from head to tail; when A's whole timeline predates B's
\* (A.last_event_time < B.first_event_time) A holds B's events in B's order
\* followed by A's events.
C27_MergeKeepsNewestFirst ==
    [][IsMerge' =>
          LET A == tracks[lastCall'.ret.self]
              B == tracks[lastCall'.ret.other]
              merged == tracks'[lastCall'.ret.self]
          IN  (NewestFirst(A) /\ NewestFirst(B)) =>
                 /\ NewestFirst(merged)
                 /\ A.last_event_time < B.first_event_time =>
                       Stamps(merged.event_list)
                          = Stamps(B.event_list) \o Stamps(A.event_list)]_vars


\* The interval of an event (room, first-presence time, closing time), and
\* two tracks holding the same intervals, each as often as the other: their
\* chronological sequences of intervals are the same.
Interval(ev) == <<ev.area, ev.first_presence_time, ev.last_falling_edge_time>>
IntervalCount(track, iv) ==
    Cardinality({k \in DOMAIN track.event_list : Interval(track.event_list[k]) = iv})
SameIntervals(t1, t2) ==
    /\ Len(t1.event_list) = Len(t2.event_list)
    /\ \A k \in DOMAIN t1.event_list :
          IntervalCount(t1, Interval(t1.event_list[k]))
             = IntervalCount(t2, Interval(t1.event_list[k]))

\* C28: merge_tracks is order-independent: for two tracks A and B built
\* through the Track interface, A.merge_tracks(B) leaves in A the intervals
\* that B.merge_tracks(A) would leave in B (same rooms, same first-presence
\* times, same closing times).
C28_MergeOrderIndependent ==
    [][(IsMerge' /\ ~IsMerge) =>
          \E other_way \in merge_tracks(tracks[lastCall'.ret.other],
                                        tracks[lastCall'.ret.self]) :
             SameIntervals(tracks'[lastCall'.ret.self], other_way)]_vars

\* C29: merge_tracks is idempotent on interval boundaries: a second
\* A.merge_tracks(B) with the same B leaves A with the events it had after
\* the first call, with the same first-presence and closing times.
C29_MergeIdempotent ==
    [][(IsMerge /\ IsMerge' /\ lastCall'.ret = lastCall.ret) =>
          [k \in DOMAIN tracks'[lastCall'.ret.self].event_list |->
              Interval(tracks'[lastCall'.ret.self].event_list[k])]
          = [k \in DOMAIN tracks[lastCall.ret.self].event_list |->
              Interval(tracks[lastCall.ret.self].event_list[k])]]_vars


\* C30: closing an Event is terminal: once last_falling_edge_time is set, no
\* impulse(), presence(), absence() or end() call on that Event makes it
\* open again.
C30_ClosedStaysClosed ==
    [][lastCall'.op \in EventMethods =>
          LET before == tracks[lastCall'.ret.self].event_list[lastCall'.ret.event]
              after == tracks'[lastCall'.ret.self].event_list[lastCall'.ret.event]
          IN  before.last_falling_edge_time # NoTime
                 => after.last_falling_edge_time # NoTime]_vars


\* C31: Event duration is never negative: every Event held in a Track after
\* any sequence of Track.add_event and Track.merge_tracks calls made under a
\* non-decreasing clock has get_duration() >= 0.
C31_DurationNeverNegative ==
    \A i \in DOMAIN tracks :
        \A k \in DOMAIN tracks[i].event_list :
            get_duration(tracks[i].event_list[k]) >= 0


(* ---------------------------------------------------------------------- *)
(* Freezing areas                                                           *)
(* ---------------------------------------------------------------------- *)
IsAreaSetState(call) == call.op \in {"Area.set_state", "execute_rule"}

\* C32: while an area is frozen its own devices are locked, and Area.set_state
\* on it or an event routed to it changes the state of no device; after a
\* successful unfreeze_area the area is not frozen and its devices are
\* unlocked; and set_state on an area that is not frozen is applied to each
\* of its devices whose driver sets state.
C32_FrozenAreaBlocksState ==
    [][/\ \A a \in AreaNames :
            area_tree.frozen[a] => \A d \in AreaDevices(a) : area_tree.locked[d]
       /\ (IsAreaSetState(lastCall') /\ area_tree.frozen[lastCall'.room])
             => area_tree'.cached_state = area_tree.cached_state
       /\ (lastCall'.op = "unfreeze_area" /\ lastCall'.room \in AreaNames)
             => /\ lastCall'.ret = TRUE
                /\ ~area_tree'.frozen[lastCall'.room]
                /\ \A d \in AreaDevices(lastCall'.room) : ~area_tree'.locked[d]
       /\ (IsAreaSetState(lastCall') /\ ~area_tree.frozen[lastCall'.room])
             => \A d \in AreaDevices(lastCall'.room) :
                    DriverSetsState(d) => area_tree'.cached_state[d] = lastCall'.ret
      ]_vars

\* A set_state or routed event arrived at a frozen area whose light had
\* been set to the other state earlier, and the light kept that state.
C32_Witness ==
    /\ IsAreaSetState(lastCall)
    /\ area_tree.frozen[lastCall.room]
    /\ \E d \in AreaDevices(lastCall.room) :
          /\ DriverSetsState(d)
          /\ area_tree.locked[d]
          /\ area_tree.cached_state[d] \in DeviceStates \ {lastCall.ret}


\* C33: no track contains two consecutive Events with the same room.
C33_NoConsecutiveSameRoom ==
    \A i \in DOMAIN tracks :
        \A k \in DOMAIN tracks[i].event_list :
            k + 1 \in DOMAIN tracks[i].event_list
                => tracks[i].event_list[k].area # tracks[i].event_list[k + 1].area


\* C34: only the head of a track can be open: every Event of a track other
\* than its head has last_falling_edge_time set.
C34_OnlyHeadOpen ==
    \A i \in DOMAIN tracks :
        \A k \in DOMAIN tracks[i].event_list :
            k > 1 => tracks[i].event_list[k].last_falling_edge_time # NoTime


\* C35: after every accepted TrackManager.add_event(r) that returns, some
\* track has r as its head room.
C35_AcceptedEventBecomesHead ==
    Completed => \E i \in DOMAIN tracks : get_area(tracks[i]) = lastCall.room


\* C36: a new room-event is never merged into a track that has already been
\* idle longer than oldest_track when the add_event call is made.
C36_StaleTrackNotRevived ==
    [][(Completed' /\ lastCall'.ret.chosen # 0)
          => clock' - tracks[lastCall'.ret.chosen].last_event_time <= oldest_track]_vars


StampCount(event_list, stamp) ==
    Cardinality({k \in DOMAIN event_list : Stamps(event_list)[k] = stamp})

\* C37: merge_tracks conserves events: after A.merge_tracks(B) on two
\* non-empty tracks the event list of A has len(A) + len(B) events, and every
\* event (room and first-presence time) occurs in it as often as in A and B
\* together, whichever branch the merge takes.
C37_MergeConservesEvents ==
    [][(IsMerge' /\ calls' # calls) =>
          LET A == tracks[lastCall'.ret.self].event_list
              B == tracks[lastCall'.ret.other].event_list
              merged == tracks'[lastCall'.ret.self].event_list
          IN  /\ Len(merged) = Len(A) + Len(B)
              /\ \A k \in DOMAIN merged :
                    StampCount(merged, Stamps(merged)[k])
                       = StampCount(A, Stamps(merged)[k]) + StampCount(B, Stamps(merged)[k])
              /\ \A k \in DOMAIN A : StampCount(merged, Stamps(A)[k]) > 0
              /\ \A k \in DOMAIN B : StampCount(merged, Stamps(B)[k]) > 0]_vars

\* A merge through the second branch has left a track of three or more
\* events: last_event_time, which only the first branch updates, is older
\* than the head.
C37_Witness ==
    /\ IsMerge
    /\ Len(tracks[lastCall.ret.self].event_list) >= 3
    /\ tracks[lastCall.ret.self].last_event_time
          < tracks[lastCall.ret.self].event_list[1].first_presence_time

\* A merge through the first branch has left a track of three or more
\* events: it ends with the events it had and starts with the other track's.
C37_WitnessPrepend ==
    /\ IsMerge
    /\ Len(tracks[lastCall.ret.self].event_list) >= 3
    /\ Len(tracks[lastCall.ret.other].event_list) >= 2
    /\ tracks[lastCall.ret.self].last_event_time = tracks[lastCall.ret.other].last_event_time
    /\ tracks[lastCall.ret.self].first_event_time < tracks[lastCall.ret.other].first_event_time
    /\ tracks[lastCall.ret.self].event_list[1].first_presence_time
          > tracks[lastCall.ret.self].first_event_time


(* ---------------------------------------------------------------------- *)
(* Resampling, diffusion and the cooldown window                           *)
(* ---------------------------------------------------------------------- *)
IsUpdateCall(call) == call.op \in {"process_event", "step", "record_presence"}
InAbsentRoom(particles) == {i \in DOMAIN particles : presence[particles[i]] = "False"}

\* C38: resampling never selects a particle of weight zero when some
\* particle has positive weight.  The weight is zero exactly in a room whose
\* explicit presence is False, and resampling keeps rooms of the weighted
\* particles only; so after an update that leaves a particle in a room
\* without presence False (a positive weight existed), no particle is in a
\* room with presence False.
C38_ResampleSkipsZeroWeight ==
    IsUpdateCall(lastCall) =>
        \A pid \in DOMAIN people :
            LET particles == people[pid].tracker.particles
            IN  InAbsentRoom(particles) # DOMAIN particles => InAbsentRoom(particles) = {}


IsEvidenceFree(call) == call.op \in {"step", "record_presence"}

\* C39: an update without sensor_room moves particles at most one hop: after
\* it every particle of every tracker is in a room that held one of that
\* tracker's particles before the call, or in a graph neighbour of such a
\* room; so one such update after a sighting in R leaves every particle in R
\* or next to R.
C39_EvidenceFreeMovesOneHop ==
    [][(IsEvidenceFree(lastCall') /\ calls' # calls) =>
          \A pid \in DOMAIN people' :
              /\ pid \in DOMAIN people
              /\ \A i \in DOMAIN people'[pid].tracker.particles :
                    \E j \in DOMAIN people[pid].tracker.particles :
                       LET before == people[pid].tracker.particles[j]
                           after == people'[pid].tracker.particles[i]
                       IN  after = before \/ after \in get_neighbors(before)
              /\ (lastCall.op = "process_event" /\ lastCall.who = pid) =>
                    \A i \in DOMAIN people'[pid].tracker.particles :
                       LET after == people'[pid].tracker.particles[i]
                       IN  after = lastCall.room \/ after \in get_neighbors(lastCall.room)]_vars

\* A step after a sighting has left a particle in a neighbour of the room
\* of the sighting.
C39_Witness ==
    /\ lastCall.op = "step"
    /\ \E pid \in DOMAIN people :
          LET tr == people[pid].tracker
          IN  /\ tr.last_sensor_room # None
              /\ \E i \in DOMAIN tr.particles :
                    tr.particles[i] \in get_neighbors(tr.last_sensor_room)


\* C40: a trigger after the cooldown has elapsed opens a fresh window: after
\* record_trigger(r, t1) with t1 >= t0 + cooldown, t0 being the time the
\* last window of r was opened, likelihood_still_present(r, t) is 1.0 for
\* every t with t1 <= t < t1 + cooldown, for a room without explicit
\* presence, whether or not a query has cleared the motion flag in between.
C40_TriggerAfterCooldownOpensWindow ==
    [][(/\ lastCall'.op = "record_trigger"
        /\ clock' >= last_fire[lastCall'.room] + cooldown
        /\ presence'[lastCall'.room] = None)
          => /\ last_fire'[lastCall'.room] = clock'
             /\ \A t \in clock'..(clock' + cooldown - 1) :
                   likelihood_still_present(SM', lastCall'.room, t) = floor_prob_den]_vars

\* A second window: the room was triggered again a cooldown or more after
\* the earliest possible trigger, and the window opened at the time of the
\* call.
C40_Witness ==
    /\ lastCall.op = "record_trigger"
    /\ presence[lastCall.room] = None
    /\ motion_state[lastCall.room]
    /\ last_fire[lastCall.room] = clock
    /\ clock >= TimeStep + cooldown
    /\ likelihood_still_present(SM, lastCall.room, clock + cooldown - 1) = floor_prob_den
====
